---- MODULE Spec2Model ----
(***************************************************************************)
(* BOOK-heaven: the book-details page (BookDetails, review lifecycle), the *)
(* rating aggregation of the catalog and profile pages, the catalog's      *)
(* filter/sort/paginate pipeline (Index), and the rows and row-level       *)
(* policies of the data store they talk to.                                *)
(***************************************************************************)
EXTENDS Integers, Sequences, FiniteSets, Bags, TLC

\* ------------------------------------------------------------------ bounds
\* Mutating store calls (insert, update, delete) the page sends in one behaviour.
MaxCalls == 2
\* Review rows the catalog's reviews query returns.
MaxRows == 3
\* Books rows the catalog store holds when the catalog page queries it.
MaxBooks == 11

\* ------------------------------------------------------- program constants
MinReviewLen == 10
MaxReviewLen == 1000
TextareaMaxLength == 1000
MinRating == 1
MaxRating == 5
ITEMS_PER_PAGE == 5

\* -------------------------------------------------------------- value sets
None == "none"
Users == {"A", "B"}
Identities == Users \cup {None}

\* The :id route parameter of the page, and another book of the store.
id == "b1"
OtherBook == "b2"

\* A text is kept as the number of characters between its first and its last
\* non-blank character (core) and the number of blank characters around them
\* (pad): the two figures trimming and the length checks read.
Text(p, c) == [pad |-> p, core |-> c]
EmptyText == Text(0, 0)
Length(t) == t.pad + t.core
Trim(t) == Text(0, t.core)

\* What the viewer can type into the Textarea (maxLength caps the length): a text of
\* 10 characters of which 5 are blanks around the rest, and the longest text there is.
TypedTexts ==
    {t \in {Text(MinReviewLen - 5, 5), Text(0, MaxReviewLen)} :
        Length(t) <= TextareaMaxLength}

\* The SelectItem values of the rating Select the model lets the viewer pick.
RatingChoices == {"3"}

\* num.toString() and parseInt(rating) on the values the Select offers.
toString(n) ==
    CASE n = 1 -> "1" [] n = 2 -> "2" [] n = 3 -> "3" [] n = 4 -> "4" [] n = 5 -> "5"
ParseInt(s) ==
    CASE s = "1" -> 1 [] s = "2" -> 2 [] s = "3" -> 3 [] s = "4" -> 4 [] s = "5" -> 5

DefaultRating == "5"
NullBook == [id |-> None, added_by |-> None, title |-> None]
ReviewIds == <<"r1", "r2", "r3", "r4", "r5", "r6">>

\* --------------------------------------------------------------- the state
VARIABLES
    \* BookDetails component state (useState, part_001 lines 23-30)
    user, book, reviews, rating, reviewText, editingReview, isLoading, isSubmitting,
    \* the toast the last step raised (none when it raised none), the router's route
    toast, route,
    \* store calls in flight: mutations and fetchBookDetails runs
    mutations, fetches,
    \* the data store: the books row of the page, the reviews rows, rows created so far
    storeBook, storeReviews, created,
    \* mutating store calls sent so far
    sent,
    \* the catalog and profile pages: the rows their queries returned, the aggregated
    \* books of Index and Profile, and Index's isLoading
    booksData, reviewsData, books, userBooks, catalogLoading, profileUser,
    \* Index's view state (useState, Index.tsx lines 16-20)
    filteredBooks, searchTerm, selectedGenre, sortBy, currentPage,
    \* the edit page of the book (AddBook with an id, part_000 lines 25-29): its user,
    \* isLoadingBook and title, its route, its fetchBook runs and update calls in flight
    editUser, isLoadingBook, title, editRoute, editFetches, bookCalls,
    \* the books rows added to the store since the pages were opened
    addedBooks

controllerVars ==
    <<user, book, reviews, rating, reviewText, editingReview, isLoading, isSubmitting,
      toast, route, mutations, fetches, storeBook, storeReviews, created, sent>>

viewVars == <<filteredBooks, searchTerm, selectedGenre, sortBy, currentPage>>

editVars ==
    <<editUser, isLoadingBook, title, editRoute, editFetches, bookCalls, addedBooks>>

catalogVars ==
    <<booksData, reviewsData, books, userBooks, catalogLoading, profileUser, viewVars>>

aggregationVars == <<catalogVars, editVars>>

vars == <<controllerVars, aggregationVars>>

\* ---------------------------------------------------------- the data store
\* (variant: any signed-in caller passes the USING clause)
OwnsReviewIfSignedIn(uid, row) == uid # None

\* auth.uid() = user_id, the USING clause of the reviews update and delete policies
\* (NULL = x is not true, so an anonymous caller owns nothing).
OwnsReview(uid, row) == uid # None /\ uid = row.user_id

\* (variant: a book without an owner passes for any signed-in caller)
OwnsBookOrOwnerless(uid, b) == uid # None /\ (b.added_by = None \/ uid = b.added_by)

\* auth.uid() = added_by, the USING clause of the books update and delete policies.
OwnsBook(uid, b) == uid # None /\ b.added_by # None /\ uid = b.added_by

\* WITH CHECK of "Authenticated users can create reviews", the rating CHECK and the
\* book_id foreign key of the reviews table.
InsertAllowed(uid, row, b) ==
    /\ uid # None /\ uid = row.user_id
    /\ row.rating >= MinRating /\ row.rating <= MaxRating
    /\ b.id = row.book_id

\* insert(...) of a reviews row: the store adds id and created_at.
StoreInsert(rows, n, row) ==
    rows \cup {[id |-> ReviewIds[n + 1], created_at |-> n + 1, book_id |-> row.book_id,
                user_id |-> row.user_id, rating |-> row.rating,
                review_text |-> row.review_text]}

\* update({rating, review_text}).eq("id", rid) under the update policy: rows the caller
\* does not own are left alone and no error is returned.
StoreUpdate(rows, uid, rid, newRating, newText) ==
    {IF r.id = rid /\ OwnsReview(uid, r)
        THEN [r EXCEPT !.rating = newRating, !.review_text = newText]
        ELSE r : r \in rows}

\* delete().eq("id", rid) under the delete policy.
StoreDelete(rows, uid, rid) ==
    {r \in rows : ~(r.id = rid /\ OwnsReview(uid, r))}

\* Rows sorted by created_at, newest first (.order("created_at", {ascending: false})).
RECURSIVE NewestFirst(_)
NewestFirst(rows) ==
    IF rows = {} THEN <<>>
    ELSE LET top == CHOOSE r \in rows : \A q \in rows : q.created_at <= r.created_at
         IN <<top>> \o NewestFirst(rows \ {top})

\* from("reviews").select(...).eq("book_id", id).order("created_at" desc)
SelectReviews(rows, b) == NewestFirst({r \in rows : r.book_id = b})

\* -------------------------------------------------------------- validation
\* reviewSchema.parse: rating in [1, 5]; the text is trimmed, then its length must be
\* at least 10 and at most 1000. The parsed value carries the trimmed text.
RatingValid(n) == n >= MinRating /\ n <= MaxRating
\* (variant: the lower bound of the text length set to 5)
TextValidFromFive(t) == Length(Trim(t)) >= 5 /\ Length(Trim(t)) <= MaxReviewLen
TextValid(t) == Length(Trim(t)) >= MinReviewLen /\ Length(Trim(t)) <= MaxReviewLen
reviewSchema(n, t) ==
    [ok |-> RatingValid(n) /\ TextValid(t), rating |-> n, reviewText |-> Trim(t)]

\* ------------------------------------------------------- what is rendered
\* The handlers that call the store (handleSubmitReview, handleDeleteReview,
\* handleDeleteBook) are the entry points of the review lifecycle: the model enters them
\* whenever the page is rendered, whoever the viewer is, and the submit handler only
\* while its button is not disabled. The callbacks that only touch local state (edit,
\* cancel, the rating Select, the Textarea) are entered through their rendered controls.
\* The render conditions of the controls are the definitions of this section.
Mounted == route = "book"
\* Neither the "Loading..." nor the "Book not found" page (lines 210-230).
PageShown == Mounted /\ ~isLoading /\ book # NullBook
\* {user && (...)}: the Add/Edit Review card (line 300).
ComposeCardShown == PageShown /\ user # None
\* disabled={isSubmitting || !reviewText.trim()} (line 341).
SubmitDisabled == isSubmitting \/ Length(Trim(reviewText)) = 0
SubmitControl == ComposeCardShown /\ ~SubmitDisabled
\* {editingReview && (<Button ...>Cancel</Button>)} (line 350).
CancelControl == ComposeCardShown /\ editingReview # None
\* {user && user.id === review.user_id && (...)}: edit and delete of a review (line 390).
ReviewControls(r) == PageShown /\ user # None /\ user = r.user_id
\* {user && user.id === book.added_by && (...)}: edit and delete of the book (line 259).
BookControls == PageShown /\ user # None /\ user = book.added_by

Displayed == {reviews[i] : i \in 1..Len(reviews)}

\* A fetchBookDetails run: its books query sent ("book"), its reviews query sent
\* ("reviews"), or the reviews rows read and on their way back ("reply").
NewFetch == [stage |-> "book", data |-> <<>>]

\* A mutating store call in flight: the request as sent, and auth.uid() of its session.
UpdateCall(rid, n, t, uid) ==
    [op |-> "update", rid |-> rid, book_id |-> None, user_id |-> None,
     rating |-> n, review_text |-> t, caller |-> uid]
InsertCall(b, author, n, t, uid) ==
    [op |-> "insert", rid |-> None, book_id |-> b, user_id |-> author,
     rating |-> n, review_text |-> t, caller |-> uid]
DeleteReviewCall(rid, uid) ==
    [op |-> "deleteReview", rid |-> rid, book_id |-> None, user_id |-> None,
     rating |-> 0, review_text |-> EmptyText, caller |-> uid]
DeleteBookCall(b, uid) ==
    [op |-> "deleteBook", rid |-> None, book_id |-> b, user_id |-> None,
     rating |-> 0, review_text |-> EmptyText, caller |-> uid]


SeedReviews ==
    {[id |-> "r1", created_at |-> 1, book_id |-> id, user_id |-> "B", rating |-> 3,
      review_text |-> Text(0, MinReviewLen)],
     [id |-> "r2", created_at |-> 2, book_id |-> id, user_id |-> "A", rating |-> 5,
      review_text |-> Text(0, MinReviewLen)],
     [id |-> "r3", created_at |-> 3, book_id |-> OtherBook, user_id |-> "A", rating |-> 5,
      review_text |-> Text(0, MinReviewLen)]}

\* The books row of the page as added by owner (none: the adder's profile is gone and
\* ON DELETE SET NULL has emptied added_by), and the reviews rows.
StoreRowsInit(owner) ==
    /\ storeBook = [id |-> id, added_by |-> owner, title |-> "Dune"]
    /\ storeReviews = SeedReviews
    /\ created = 3

\* The component as mounted: the initial useState values, with the fetchBookDetails of
\* the [id] effect issued (it sets isLoading, already true).
ComponentInit ==
    /\ user = None
    /\ book = NullBook
    /\ reviews = <<>>
    /\ rating = DefaultRating
    /\ reviewText = EmptyText
    /\ editingReview = None
    /\ isLoading = TRUE
    /\ isSubmitting = FALSE
    /\ toast = None
    /\ route = "book"
    /\ mutations = EmptyBag
    /\ fetches = SetToBag({NewFetch})
    /\ sent = 0

ControllerInit ==
    /\ ComponentInit
    /\ StoreRowsInit("A")

\* The catalog and profile pages as mounted, before any query has answered.
PagesInit ==
    /\ books = <<>>
    /\ userBooks = <<>>
    /\ catalogLoading = TRUE
    /\ profileUser = None
    /\ filteredBooks = <<>>
    /\ searchTerm = <<>>
    /\ selectedGenre = "all"
    /\ sortBy = "recent"
    /\ currentPage = 1
    /\ editUser = None
    /\ isLoadingBook = FALSE
    /\ title = None
    /\ editRoute = "edit-book"
    /\ editFetches = {}
    /\ bookCalls = {}
    /\ addedBooks = {}

Init ==
    /\ ControllerInit
    /\ PagesInit
    /\ booksData = <<>>
    /\ reviewsData = <<>>

storeVars == <<storeBook, storeReviews, created>>
draftVars == <<rating, reviewText, editingReview>>

\* setupAuth resolving and the onAuthStateChange callback: setUser(session?.user ?? null).
OnAuthStateChange(u) ==
    /\ Mounted
    /\ u # user
    /\ user' = u
    /\ toast' = None
    /\ UNCHANGED <<book, reviews, draftVars, isLoading, isSubmitting, route, mutations,
                   fetches, storeVars, sent, aggregationVars>>


\* ------------------------------------------------- fetchBookDetails (55-84)
\* fetchBookDetails() as called by a handler: setIsLoading(true) and the books query.
IssueFetch ==
    /\ fetches' = fetches (+) SetToBag({NewFetch})
    /\ isLoading' = TRUE

\* The books query answers with the row: setBook(bookData), then the reviews query.
FetchBook(f) ==
    /\ Mounted
    /\ f.stage = "book"
    /\ storeBook.id = id
    /\ book' = storeBook
    /\ fetches' = (fetches (-) SetToBag({f})) (+) SetToBag({[f EXCEPT !.stage = "reviews"]})
    /\ toast' = None
    /\ UNCHANGED <<user, reviews, draftVars, isLoading, isSubmitting, route, mutations,
                   storeVars, sent, aggregationVars>>

\* The store reads the reviews rows of the book; the response is on its way.
FetchReviewsRead(f) ==
    /\ Mounted
    /\ f.stage = "reviews"
    /\ fetches' = (fetches (-) SetToBag({f}))
                  (+) SetToBag({[stage |-> "reply", data |-> SelectReviews(storeReviews, id)]})
    /\ toast' = None
    /\ UNCHANGED <<user, book, reviews, draftVars, isLoading, isSubmitting, route,
                   mutations, storeVars, sent, aggregationVars>>

\* The reviews response arrives: setReviews(reviewsData); finally setIsLoading(false).
FetchReviewsReply(f) ==
    /\ Mounted
    /\ f.stage = "reply"
    /\ reviews' = f.data
    /\ isLoading' = FALSE
    /\ fetches' = fetches (-) SetToBag({f})
    /\ toast' = None
    /\ UNCHANGED <<user, book, draftVars, isSubmitting, route, mutations, storeVars,
                   sent, aggregationVars>>

\* Either query fails (.single() finds no row, or a store error): the catch block toasts
\* and finally setIsLoading(false); what was set before the failure stays.
FetchError(f) ==
    /\ Mounted
    /\ f.stage \in {"book", "reviews"}
    /\ toast' = "Failed to fetch book details"
    /\ isLoading' = FALSE
    /\ fetches' = fetches (-) SetToBag({f})
    /\ UNCHANGED <<user, book, reviews, draftVars, isSubmitting, route, mutations,
                   storeVars, sent, aggregationVars>>

\* ------------------------------------------------ the compose card (300-365)
\* <Select value={rating} onValueChange={setRating}>
SetRating(s) ==
    /\ ComposeCardShown
    /\ s # rating
    /\ rating' = s
    /\ toast' = None
    /\ UNCHANGED <<user, book, reviews, reviewText, editingReview, isLoading,
                   isSubmitting, route, mutations, fetches, storeVars, sent,
                   aggregationVars>>

\* <Textarea onChange={(e) => setReviewText(e.target.value)} maxLength={1000}>
SetReviewText(t) ==
    /\ ComposeCardShown
    /\ t # reviewText
    /\ reviewText' = t
    /\ toast' = None
    /\ UNCHANGED <<user, book, reviews, rating, editingReview, isLoading, isSubmitting,
                   route, mutations, fetches, storeVars, sent, aggregationVars>>

\* (variant: Cancel drops the edit binding and keeps the draft text)
CancelComposeKeepsText ==
    /\ CancelControl
    /\ editingReview' = None
    /\ rating' = DefaultRating
    /\ toast' = None
    /\ UNCHANGED <<user, book, reviews, reviewText, isLoading, isSubmitting, route,
                   mutations, fetches, storeVars, sent, aggregationVars>>

\* The Cancel button's onClick (353-357).
CancelCompose ==
    /\ CancelControl
    /\ editingReview' = None
    /\ rating' = DefaultRating
    /\ reviewText' = EmptyText
    /\ toast' = None
    /\ UNCHANGED <<user, book, reviews, isLoading, isSubmitting, route, mutations,
                   fetches, storeVars, sent, aggregationVars>>

\* ---------------------------------------------- handleSubmitReview (86-156)
\* (variant: the missing-session check is dropped and the insert is sent)
SubmitWithoutSession ==
    /\ user = None
    /\ sent < MaxCalls
    /\ sent' = sent + 1
    /\ isSubmitting' = TRUE
    /\ mutations' = mutations (+)
                    SetToBag({InsertCall(id, user, ParseInt(rating), Trim(reviewText), user)})
    /\ toast' = None
    /\ UNCHANGED <<user, book, reviews, draftVars, isLoading, route, fetches, storeVars,
                   aggregationVars>>

\* if (!user): toast, navigate("/auth"), return.
SubmitAnonymous ==
    /\ user = None
    /\ toast' = "Authentication Required"
    /\ route' = "/auth"
    /\ UNCHANGED <<user, book, reviews, draftVars, isLoading, isSubmitting, mutations,
                   fetches, storeVars, sent, aggregationVars>>

\* reviewSchema.parse throws: the ZodError toast; setIsSubmitting(true) and the finally
\* block's setIsSubmitting(false) are batched into one render.
SubmitInvalid ==
    /\ user # None
    /\ ~reviewSchema(ParseInt(rating), reviewText).ok
    /\ toast' = "Validation Error"
    /\ isSubmitting' = FALSE
    /\ UNCHANGED <<user, book, reviews, draftVars, isLoading, route, mutations, fetches,
                   storeVars, sent, aggregationVars>>

\* (variant: the edit binding is ignored and every submit inserts)
SubmitCallInsertOnly(validated) ==
    InsertCall(id, user, validated.rating, validated.reviewText, user)

\* The request the try block sends: an update of the bound review, or an insert.
SubmitCall(validated) ==
    IF editingReview # None
        THEN UpdateCall(editingReview, validated.rating, validated.reviewText, user)
        ELSE InsertCall(id, user, validated.rating, validated.reviewText, user)

\* The draft parses: setIsSubmitting(true) and the store call is sent.
SubmitSend ==
    /\ user # None
    /\ reviewSchema(ParseInt(rating), reviewText).ok
    /\ sent < MaxCalls
    /\ sent' = sent + 1
    /\ isSubmitting' = TRUE
    /\ mutations' = mutations (+)
                    SetToBag({SubmitCall(reviewSchema(ParseInt(rating), reviewText))})
    /\ toast' = None
    /\ UNCHANGED <<user, book, reviews, draftVars, isLoading, route, fetches, storeVars,
                   aggregationVars>>

\* handleSubmitReview up to its first await.
HandleSubmitReview ==
    /\ PageShown
    /\ ~SubmitDisabled
    /\ (SubmitAnonymous \/ SubmitInvalid \/ SubmitSend)

\* The store's answer to the submit arrives without error: the success toast, the state
\* resets of the branch taken, fetchBookDetails(), and finally setIsSubmitting(false).
SubmitSuccess(m) ==
    /\ Mounted
    /\ m.op \in {"insert", "update"}
    /\ BagIn(m, mutations)
    /\ mutations' = mutations (-) SetToBag({m})
    /\ IF m.op = "update"
          THEN /\ storeReviews' = StoreUpdate(storeReviews, m.caller, m.rid, m.rating,
                                              m.review_text)
               /\ created' = created
               /\ toast' = "Review updated successfully"
               /\ editingReview' = None
          ELSE /\ InsertAllowed(m.caller, m, storeBook)
               /\ storeReviews' = StoreInsert(storeReviews, created, m)
               /\ created' = created + 1
               /\ toast' = "Review submitted successfully"
               /\ editingReview' = editingReview
    /\ rating' = DefaultRating
    /\ reviewText' = EmptyText
    /\ IssueFetch
    /\ isSubmitting' = FALSE
    /\ UNCHANGED <<user, book, reviews, route, storeBook, sent, aggregationVars>>

\* (variant: the failure path resets the draft as the success path does)
SubmitFailureClearsDraft(m) ==
    /\ Mounted
    /\ m.op \in {"insert", "update"}
    /\ BagIn(m, mutations)
    /\ mutations' = mutations (-) SetToBag({m})
    /\ toast' = "Failed to submit review"
    /\ isSubmitting' = FALSE
    /\ editingReview' = None
    /\ rating' = DefaultRating
    /\ reviewText' = EmptyText
    /\ UNCHANGED <<user, book, reviews, isLoading, route, fetches, storeVars, sent,
                   aggregationVars>>

\* (variant: the error path does not reach setIsSubmitting(false))
SubmitFailureStaysSubmitting(m) ==
    /\ Mounted
    /\ m.op \in {"insert", "update"}
    /\ BagIn(m, mutations)
    /\ mutations' = mutations (-) SetToBag({m})
    /\ toast' = "Failed to submit review"
    /\ UNCHANGED <<user, book, reviews, draftVars, isLoading, isSubmitting, route, fetches,
                   storeVars, sent, aggregationVars>>

\* The store's answer carries an error: the error toast; finally setIsSubmitting(false).
SubmitFailure(m) ==
    /\ Mounted
    /\ m.op \in {"insert", "update"}
    /\ BagIn(m, mutations)
    /\ mutations' = mutations (-) SetToBag({m})
    /\ toast' = "Failed to submit review"
    /\ isSubmitting' = FALSE
    /\ UNCHANGED <<user, book, reviews, draftVars, isLoading, route, fetches, storeVars,
                   sent, aggregationVars>>

\* ------------------------------------------------ handleEditReview (158-163)
HandleEditReview(review) ==
    /\ review \in Displayed
    /\ ReviewControls(review)
    /\ editingReview' = review.id
    /\ rating' = toString(review.rating)
    /\ reviewText' = review.review_text
    /\ toast' = None
    /\ UNCHANGED <<user, book, reviews, isLoading, isSubmitting, route, mutations,
                   fetches, storeVars, sent, aggregationVars>>

\* ---------------------------------------------- handleDeleteReview (165-182)
\* The delete request is sent.
HandleDeleteReview(review) ==
    /\ PageShown
    /\ review \in Displayed
    /\ sent < MaxCalls
    /\ sent' = sent + 1
    /\ mutations' = mutations (+) SetToBag({DeleteReviewCall(review.id, user)})
    /\ toast' = None
    /\ UNCHANGED <<user, book, reviews, draftVars, isLoading, isSubmitting, route,
                   fetches, storeVars, aggregationVars>>

\* (variant: the deleted review is dropped from the displayed list, without a refetch)
DeleteReviewSuccessPatches(m) ==
    /\ Mounted
    /\ m.op = "deleteReview"
    /\ BagIn(m, mutations)
    /\ mutations' = mutations (-) SetToBag({m})
    /\ storeReviews' = StoreDelete(storeReviews, m.caller, m.rid)
    /\ toast' = "Review deleted successfully"
    /\ reviews' = SelectSeq(reviews, LAMBDA r : r.id # m.rid)
    /\ UNCHANGED <<user, book, draftVars, isLoading, isSubmitting, route, fetches,
                   storeBook, created, sent, aggregationVars>>

\* The answer arrives without error: the success toast and fetchBookDetails().
DeleteReviewSuccess(m) ==
    /\ Mounted
    /\ m.op = "deleteReview"
    /\ BagIn(m, mutations)
    /\ mutations' = mutations (-) SetToBag({m})
    /\ storeReviews' = StoreDelete(storeReviews, m.caller, m.rid)
    /\ toast' = "Review deleted successfully"
    /\ IssueFetch
    /\ UNCHANGED <<user, book, reviews, draftVars, isSubmitting, route, storeBook,
                   created, sent, aggregationVars>>

\* The answer carries an error: the error toast.
DeleteReviewFailure(m) ==
    /\ Mounted
    /\ m.op = "deleteReview"
    /\ BagIn(m, mutations)
    /\ mutations' = mutations (-) SetToBag({m})
    /\ toast' = "Failed to delete review"
    /\ UNCHANGED <<user, book, reviews, draftVars, isLoading, isSubmitting, route,
                   fetches, storeVars, sent, aggregationVars>>

\* ------------------------------------------------ handleDeleteBook (184-203)
\* window.confirm answered yes: the delete request is sent.
HandleDeleteBook ==
    /\ PageShown
    /\ sent < MaxCalls
    /\ sent' = sent + 1
    /\ mutations' = mutations (+) SetToBag({DeleteBookCall(id, user)})
    /\ toast' = None
    /\ UNCHANGED <<user, book, reviews, draftVars, isLoading, isSubmitting, route,
                   fetches, storeVars, aggregationVars>>

\* delete().eq("id", b) on books under the delete policy; the reviews of a deleted book
\* go with it (book_id ... ON DELETE CASCADE).
StoreDeleteBook(b, uid) == IF OwnsBook(uid, b) THEN NullBook ELSE b
CascadeReviews(rows, b) == {r \in rows : r.book_id # id \/ b.id = id}

\* The answer arrives without error: the success toast and navigate("/").
DeleteBookSuccess(m) ==
    /\ Mounted
    /\ m.op = "deleteBook"
    /\ BagIn(m, mutations)
    /\ mutations' = mutations (-) SetToBag({m})
    /\ storeBook' = StoreDeleteBook(storeBook, m.caller)
    /\ storeReviews' = CascadeReviews(storeReviews, storeBook')
    /\ toast' = "Book deleted successfully"
    /\ route' = "/"
    /\ UNCHANGED <<user, book, reviews, draftVars, isLoading, isSubmitting, fetches,
                   created, sent, aggregationVars>>

\* The answer carries an error: the error toast.
DeleteBookFailure(m) ==
    /\ Mounted
    /\ m.op = "deleteBook"
    /\ BagIn(m, mutations)
    /\ mutations' = mutations (-) SetToBag({m})
    /\ toast' = "Failed to delete book"
    /\ UNCHANGED <<user, book, reviews, draftVars, isLoading, isSubmitting, route,
                   fetches, storeVars, sent, aggregationVars>>

\* The steps of the page and of its store calls, every query of fetchBookDetails
\* answering without error.
FetchesAnsweredNext ==
    \/ \E u \in Identities : OnAuthStateChange(u)
    \/ \E f \in BagToSet(fetches) : FetchBook(f)
    \/ \E f \in BagToSet(fetches) : FetchReviewsRead(f)
    \/ \E f \in BagToSet(fetches) : FetchReviewsReply(f)
    \/ \E s \in RatingChoices : SetRating(s)
    \/ \E t \in TypedTexts : SetReviewText(t)
    \/ CancelCompose
    \/ HandleSubmitReview
    \/ \E m \in BagToSet(mutations) : SubmitSuccess(m)
    \/ \E m \in BagToSet(mutations) : SubmitFailure(m)
    \/ \E r \in Displayed : HandleEditReview(r)
    \/ \E r \in Displayed : HandleDeleteReview(r)
    \/ \E m \in BagToSet(mutations) : DeleteReviewSuccess(m)
    \/ \E m \in BagToSet(mutations) : DeleteReviewFailure(m)
    \/ HandleDeleteBook
    \/ \E m \in BagToSet(mutations) : DeleteBookSuccess(m)
    \/ \E m \in BagToSet(mutations) : DeleteBookFailure(m)

Next ==
    \/ FetchesAnsweredNext
    \/ \E f \in BagToSet(fetches) : FetchError(f)

Spec == Init /\ [][Next]_vars

\* The awaited store call of a submit resolves, with or without an error.
SubmitResolves ==
    \E m \in BagToSet(mutations) : SubmitSuccess(m) \/ SubmitFailure(m)

\* The behaviours of the page in which the store answers every submit call in the end.
LiveSpec == Spec /\ WF_vars(SubmitResolves)

\* The behaviours of the page in which no query of fetchBookDetails fails.
FetchesAnsweredSpec == Init /\ [][FetchesAnsweredNext]_vars

\* ------------------------------------- the store under any client's requests
\* The state of the BookDetails page other than the toast.
pageVars ==
    <<user, book, reviews, draftVars, isLoading, isSubmitting, route, mutations, fetches>>

\* The values a request carries: a rating and a text no seeded review has, a title the
\* seeded book does not have, and the reviews a request addresses.
RequestRating == 1
RequestText == Text(0, MinReviewLen + 1)
RequestTitle == "Dune Messiah"
RequestTargets == {"r1", "r2", "r3"}

\* WITH CHECK of "Authenticated users can create books" (SQL lines 60-62).
BookInsertAllowed(uid, owner) == uid # None /\ uid = owner

\* update({title, ...}).eq("id", bid) on books under the update policy.
StoreUpdateBook(b, uid, bid, newTitle) ==
    IF b.id = bid /\ OwnsBook(uid, b) THEN [b EXCEPT !.title = newTitle] ELSE b

\* An update of a reviews row sent to the store by any client, as identity uid.
UpdateReviewRequest(uid, rid) ==
    /\ sent < MaxCalls
    /\ sent' = sent + 1
    /\ storeReviews' = StoreUpdate(storeReviews, uid, rid, RequestRating, RequestText)
    /\ toast' = None
    /\ UNCHANGED <<pageVars, storeBook, created, catalogVars, editVars>>

\* A delete of a reviews row sent to the store by any client.
DeleteReviewRequest(uid, rid) ==
    /\ sent < MaxCalls
    /\ sent' = sent + 1
    /\ storeReviews' = StoreDelete(storeReviews, uid, rid)
    /\ toast' = None
    /\ UNCHANGED <<pageVars, storeBook, created, catalogVars, editVars>>

\* An insert of a reviews row naming author as its user_id, sent as identity uid: a row
\* that fails the WITH CHECK is rejected with an error and nothing is stored.
InsertReviewRequest(uid, author) ==
    LET row == [book_id |-> id, user_id |-> author, rating |-> RequestRating,
                review_text |-> RequestText]
    IN /\ sent < MaxCalls
       /\ sent' = sent + 1
       /\ IF InsertAllowed(uid, row, storeBook)
             THEN /\ storeReviews' = StoreInsert(storeReviews, created, row)
                  /\ created' = created + 1
             ELSE UNCHANGED <<storeReviews, created>>
       /\ toast' = None
       /\ UNCHANGED <<pageVars, storeBook, catalogVars, editVars>>

\* An update of the books row sent to the store by any client.
UpdateBookRequest(uid) ==
    /\ sent < MaxCalls
    /\ sent' = sent + 1
    /\ storeBook' = StoreUpdateBook(storeBook, uid, id, RequestTitle)
    /\ toast' = None
    /\ UNCHANGED <<pageVars, storeReviews, created, catalogVars, editVars>>

\* A delete of the books row sent to the store by any client.
DeleteBookRequest(uid) ==
    /\ sent < MaxCalls
    /\ sent' = sent + 1
    /\ storeBook' = StoreDeleteBook(storeBook, uid)
    /\ storeReviews' = CascadeReviews(storeReviews, storeBook')
    /\ toast' = None
    /\ UNCHANGED <<pageVars, created, catalogVars, editVars>>

\* An insert of a books row naming owner as its added_by, sent as identity uid; the row
\* gets an id of its own, so it is not the row of the page.
InsertBookRequest(uid, owner) ==
    /\ sent < MaxCalls
    /\ sent' = sent + 1
    /\ addedBooks' = IF BookInsertAllowed(uid, owner)
                        THEN addedBooks \cup {[added_by |-> owner, title |-> RequestTitle]}
                        ELSE addedBooks
    /\ toast' = None
    /\ UNCHANGED <<pageVars, storeVars, catalogVars, editUser, isLoadingBook, title,
                   editRoute, editFetches, bookCalls>>

\* ------------------------------------------ the edit page (AddBook with an id)
EditMounted == editRoute = "edit-book"
\* if (isLoadingBook) return <Loading/> (part_000 line 182): the form is rendered.
FormShown == EditMounted /\ ~isLoadingBook

\* setupAuth resolving and the onAuthStateChange callback (35-62): without a session
\* navigate("/auth"); with one setUser, and the [id, user] effect runs fetchBook, which
\* sets isLoadingBook and sends the books query.
EditAuthStateChange(u) ==
    /\ EditMounted
    /\ u # editUser \/ u = None
    /\ editUser' = u
    /\ IF u = None
          THEN /\ editRoute' = "/auth"
               /\ toast' \in {"Authentication Required", None}
               /\ UNCHANGED <<isLoadingBook, editFetches>>
          ELSE /\ isLoadingBook' = TRUE
               /\ editFetches' = editFetches \cup {u}
               /\ toast' = None
               /\ editRoute' = editRoute
    /\ UNCHANGED <<pageVars, storeVars, sent, catalogVars, title, bookCalls, addedBooks>>

\* fetchBook after its await (70-106), run by the effect for user u: no row is an error
\* (.single()), a row added by someone else is refused, both with navigate("/");
\* otherwise the form fields are set. finally setIsLoadingBook(false).
fetchBook(u) ==
    /\ EditMounted
    /\ u \in editFetches
    /\ editFetches' = editFetches \ {u}
    /\ isLoadingBook' = FALSE
    /\ IF storeBook.id # id
          THEN /\ toast' = "Failed to fetch book details"
               /\ editRoute' = "/"
               /\ title' = title
          ELSE IF storeBook.added_by # u
          THEN /\ toast' = "Access Denied"
               /\ editRoute' = "/"
               /\ title' = title
          ELSE /\ toast' = None
               /\ title' = storeBook.title
               /\ editRoute' = editRoute
    /\ UNCHANGED <<pageVars, storeVars, sent, catalogVars, editUser, bookCalls,
                   addedBooks>>

\* The title Input's onChange.
setTitle(t) ==
    /\ FormShown
    /\ title' = t
    /\ toast' = None
    /\ UNCHANGED <<pageVars, storeVars, sent, catalogVars, editUser, isLoadingBook,
                   editRoute, editFetches, bookCalls, addedBooks>>

\* handleSubmit up to its await (108-132), entered through the form: the title Input is
\* required and the submit button is disabled while isLoading, which is set for as long
\* as a call of the page is in flight. Nothing happens without a user; otherwise the
\* update request is sent.
handleSubmit ==
    /\ FormShown
    /\ title # None
    /\ bookCalls = {}
    /\ \/ /\ editUser = None
          /\ UNCHANGED <<bookCalls, sent>>
       \/ /\ editUser # None
          /\ sent < MaxCalls
          /\ sent' = sent + 1
          /\ bookCalls' = bookCalls \cup {[title |-> title, caller |-> editUser]}
    /\ toast' = None
    /\ UNCHANGED <<pageVars, storeVars, catalogVars, editUser, isLoadingBook, title,
                   editRoute, editFetches, addedBooks>>

\* The store's answer to the update arrives without error (134-140): the success toast
\* and navigate(`/book/${id}`).
BookUpdateSuccess(c) ==
    /\ c \in bookCalls
    /\ bookCalls' = bookCalls \ {c}
    /\ storeBook' = StoreUpdateBook(storeBook, c.caller, id, c.title)
    /\ toast' = "Book updated successfully"
    /\ editRoute' = "/book"
    /\ UNCHANGED <<pageVars, storeReviews, created, sent, catalogVars, editUser,
                   isLoadingBook, title, editFetches, addedBooks>>

\* The answer carries an error (163-176): the error toast.
BookUpdateFailure(c) ==
    /\ c \in bookCalls
    /\ bookCalls' = bookCalls \ {c}
    /\ toast' = "Failed to save book"
    /\ UNCHANGED <<pageVars, storeVars, sent, catalogVars, editUser, isLoadingBook,
                   title, editRoute, editFetches, addedBooks>>

\* The store holding a book that has an owner or has lost it, and the book's pages
\* as they open.
StoreInit ==
    /\ ComponentInit
    /\ \E owner \in {"A", None} : StoreRowsInit(owner)
    /\ PagesInit
    /\ booksData = <<>>
    /\ reviewsData = <<>>

\* The requests any client may send to the store.
StoreNext ==
    \/ \E uid \in Identities, rid \in RequestTargets : UpdateReviewRequest(uid, rid)
    \/ \E uid \in Identities, rid \in RequestTargets : DeleteReviewRequest(uid, rid)
    \/ \E uid \in Identities, author \in Users : InsertReviewRequest(uid, author)
    \/ \E uid \in Identities : UpdateBookRequest(uid)
    \/ \E uid \in Identities : DeleteBookRequest(uid)
    \/ \E uid \in Identities, owner \in Users : InsertBookRequest(uid, owner)

StoreSpec == StoreInit /\ [][StoreNext]_vars

\* The same requests, with the book page and the edit page at work.
BookNext ==
    \/ StoreNext
    \/ \E u \in Identities : OnAuthStateChange(u)
    \/ \E f \in BagToSet(fetches) : FetchBook(f)
    \/ \E f \in BagToSet(fetches) : FetchReviewsRead(f)
    \/ \E f \in BagToSet(fetches) : FetchReviewsReply(f)
    \/ \E f \in BagToSet(fetches) : FetchError(f)
    \/ HandleDeleteBook
    \/ \E m \in BagToSet(mutations) : DeleteBookSuccess(m)
    \/ \E m \in BagToSet(mutations) : DeleteBookFailure(m)
    \/ \E u \in Identities : EditAuthStateChange(u)
    \/ \E u \in editFetches : fetchBook(u)
    \/ setTitle(RequestTitle)
    \/ handleSubmit
    \/ \E c \in bookCalls : BookUpdateSuccess(c)
    \/ \E c \in bookCalls : BookUpdateFailure(c)

BookSpec == StoreInit /\ [][BookNext]_vars

\* ------------------------------------- rating aggregation (Index, Profile)
\* The books rows of the catalog store, and an id no books row carries.
BookRows ==
    {[id |-> "b1", title |-> "Dune", author |-> "Frank Herbert",
      genre |-> "Science Fiction", published_year |-> 1965, created_at |-> 1,
      added_by |-> "A"],
     [id |-> "b2", title |-> "Circe", author |-> "Madeline Miller",
      genre |-> "Fantasy", published_year |-> 2018, created_at |-> 2,
      added_by |-> None]}
OrphanBook == "b9"

\* select("book_id, rating") rows.
ReviewRows ==
    [book_id : {r.id : r \in BookRows} \cup {OrphanBook}, rating : {1, 4, 5}]

\* The books query's answers: some of the rows, newest first.
BookLists == {NewestFirst(S) : S \in SUBSET BookRows}
ReviewLists == UNION {[1..n -> ReviewRows] : n \in 0..MaxRows}

\* a / b of two numbers, as the fraction in lowest terms it denotes.
RECURSIVE Gcd(_, _)
Gcd(a, b) == IF b = 0 THEN a ELSE Gcd(b, a % b)
Quotient(a, b) == [num |-> a \div Gcd(a, b), den |-> b \div Gcd(a, b)]
Zero == [num |-> 0, den |-> 1]

\* bookReviews.reduce((sum, r) => sum + r.rating, 0)
RECURSIVE SumOfRatings(_)
SumOfRatings(rs) == IF rs = <<>> THEN 0 ELSE Head(rs).rating + SumOfRatings(Tail(rs))

\* (variant: the reviews are not filtered by book)
ReviewsOfAnyBook(rs, b) == rs

\* reviewsData.filter((r) => r.book_id === book.id)
ReviewsOf(rs, b) == SelectSeq(rs, LAMBDA r : r.book_id = b.id)

\* bookReviews.length > 0 ? sum / bookReviews.length : 0
Average(bookReviews) ==
    IF Len(bookReviews) > 0
        THEN Quotient(SumOfRatings(bookReviews), Len(bookReviews))
        ELSE Zero

\* booksData.map((book) => ({...book, averageRating, reviewCount}))
BooksWithRatings(bs, rs) ==
    [i \in 1..Len(bs) |->
        [averageRating |-> Average(ReviewsOf(rs, bs[i])),
         reviewCount |-> Len(ReviewsOf(rs, bs[i]))] @@ bs[i]]

\* --------------------------------- filter, sort, paginate (Index, 92-132)
\* A title, an author and a search term are sequences of characters. The letters the
\* model uses, lower case and upper case, in alphabetical order.
LowerCase == <<"a", "b", "c">>
UpperCase == <<"A", "B", "C">>
IsUpperCase(c) == \E i \in 1..Len(UpperCase) : UpperCase[i] = c
\* The place of a letter in the alphabet, whatever its case.
LetterRank(c) ==
    CHOOSE i \in 1..Len(LowerCase) : LowerCase[i] = c \/ UpperCase[i] = c

\* (variant: the case of the letters is kept)
KeepCase(s) == s

\* String.prototype.toLowerCase
toLowerCase(s) ==
    [i \in 1..Len(s) |-> IF IsUpperCase(s[i]) THEN LowerCase[LetterRank(s[i])] ELSE s[i]]

\* String.prototype.includes: t occurs in s at some offset.
includes(s, t) ==
    \E k \in 0..(Len(s) - Len(t)) : SubSeq(s, k + 1, k + Len(t)) = t

\* String.prototype.localeCompare on letters: the strings are compared letter by letter
\* regardless of case (a shorter string before its extensions); strings alike up to case
\* are ordered by their first difference of case, lower case first. -1, 0 or 1.
RECURSIVE CompareLetters(_, _)
CompareLetters(s, t) ==
    IF s = <<>> THEN (IF t = <<>> THEN 0 ELSE -1)
    ELSE IF t = <<>> THEN 1
    ELSE IF LetterRank(Head(s)) < LetterRank(Head(t)) THEN -1
    ELSE IF LetterRank(Head(s)) > LetterRank(Head(t)) THEN 1
    ELSE CompareLetters(Tail(s), Tail(t))

RECURSIVE CompareCase(_, _)
CompareCase(s, t) ==
    IF s = <<>> \/ t = <<>> THEN 0
    ELSE IF ~IsUpperCase(Head(s)) /\ IsUpperCase(Head(t)) THEN -1
    ELSE IF IsUpperCase(Head(s)) /\ ~IsUpperCase(Head(t)) THEN 1
    ELSE CompareCase(Tail(s), Tail(t))

localeCompare(s, t) ==
    IF CompareLetters(s, t) # 0 THEN CompareLetters(s, t) ELSE CompareCase(s, t)

\* The search filter (96-102) and the genre filter (105-107).
MatchesSearch(b, term) ==
    \/ includes(toLowerCase(b.title), toLowerCase(term))
    \/ includes(toLowerCase(b.author), toLowerCase(term))

Filtered(bs, term, genre) ==
    LET searched == IF term # <<>>
                        THEN SelectSeq(bs, LAMBDA b : MatchesSearch(b, term))
                        ELSE bs
    IN IF genre # "all"
          THEN SelectSeq(searched, LAMBDA b : b.genre = genre)
          ELSE searched

\* (variant: the year comparison is turned round)
CompareYearAscending(a, b, key) ==
    CASE key = "rating" -> b.averageRating.num * a.averageRating.den
                               - a.averageRating.num * b.averageRating.den
      [] key = "year" -> a.published_year - b.published_year
      [] key = "title" -> localeCompare(a.title, b.title)
      [] OTHER -> b.created_at - a.created_at

\* The comparator of filtered.sort (110-121): negative when a goes before b. The
\* difference of two averages is given by a number of the same sign.
Compare(a, b, key) ==
    CASE key = "rating" -> b.averageRating.num * a.averageRating.den
                               - a.averageRating.num * b.averageRating.den
      [] key = "year" -> b.published_year - a.published_year
      [] key = "title" -> localeCompare(a.title, b.title)
      [] OTHER -> b.created_at - a.created_at

\* Array.prototype.sort with that comparator. The sort is stable: an item is placed
\* after the items that compare before it or equal to it and were ahead of it.
RECURSIVE Sorted(_, _)
Sorted(bs, key) ==
    IF bs = <<>> THEN <<>>
    ELSE LET front == Sorted(SubSeq(bs, 1, Len(bs) - 1), key)
             last == bs[Len(bs)]
             k == Cardinality({j \in 1..Len(front) : Compare(front[j], last, key) <= 0})
         IN SubSeq(front, 1, k) \o <<last>> \o SubSeq(front, k + 1, Len(front))

\* filterAndSortBooks, run by the effect on [books, searchTerm, selectedGenre, sortBy]
\* after the render that changed one of them: setFilteredBooks, setCurrentPage(1).
filterAndSortBooks ==
    /\ filteredBooks' = Sorted(Filtered(books', searchTerm', selectedGenre'), sortBy')
    /\ currentPage' = 1

\* (variant: the genres are not deduplicated)
GenresWithRepeats(bs) == [i \in 1..Len(bs) |-> bs[i].genre]

\* [...new Set(books.map((book) => book.genre))]: each value once, first seen first.
RECURSIVE genres(_)
genres(bs) ==
    IF bs = <<>> THEN <<>>
    ELSE LET front == genres(SubSeq(bs, 1, Len(bs) - 1))
             g == bs[Len(bs)].genre
         IN IF \E i \in 1..Len(front) : front[i] = g THEN front ELSE Append(front, g)

\* The SelectItem values of the genre Select (169-174).
GenreOptions == <<"all">> \o genres(books)
SortOptions == {"recent", "rating", "year", "title"}

\* (variant: the page count is rounded down)
TotalPagesRoundedDown(n) == n \div ITEMS_PER_PAGE

\* Math.ceil(filteredBooks.length / ITEMS_PER_PAGE)
TotalPages(n) == (n + ITEMS_PER_PAGE - 1) \div ITEMS_PER_PAGE
totalPages == TotalPages(Len(filteredBooks))

\* Array.prototype.slice(start, end) for 0 <= start <= end.
slice(s, start, end) ==
    SubSeq(s, start + 1, IF end < Len(s) THEN end ELSE Len(s))

PageSlice(s, p) == slice(s, (p - 1) * ITEMS_PER_PAGE, p * ITEMS_PER_PAGE)
paginatedBooks == PageSlice(filteredBooks, currentPage)

\* {totalPages > 1 && (...)} inside the branch taken when the page is not loading and
\* paginatedBooks is not empty (192-214).
PaginationShown == ~catalogLoading /\ Len(paginatedBooks) > 0 /\ totalPages > 1

\* ------------------------------------------------------- rating displays
Digits == <<"0", "1", "2", "3", "4", "5", "6", "7", "8", "9">>

\* Number.prototype.toFixed(1) of a / b below 10: the nearest tenth, as characters
\* (a tie is rounded up, as it is for the quotients the row counts of the model yield).
toFixed(q) ==
    LET tenths == (20 * q.num + q.den) \div (2 * q.den)
    IN <<Digits[(tenths \div 10) + 1], ".", Digits[(tenths % 10) + 1]>>

\* BookCard: {averageRating > 0 ? averageRating.toFixed(1) : "No ratings"}
BookCardRating(averageRating) ==
    IF averageRating.num > 0 THEN toFixed(averageRating) ELSE <<"No ratings">>

\* BookDetails: reviews.length > 0 ? (sum / length).toFixed(1) : "0.0"
averageRating ==
    IF Len(reviews) > 0
        THEN toFixed(Quotient(SumOfRatings(reviews), Len(reviews)))
        ELSE <<"0", ".", "0">>

\* Index.fetchBooks once both queries have answered: setBooks, setIsLoading(false);
\* the new books make the effect run filterAndSortBooks.
FetchBooks ==
    /\ catalogLoading
    /\ books' = BooksWithRatings(booksData, reviewsData)
    /\ catalogLoading' = FALSE
    /\ UNCHANGED <<controllerVars, editVars, booksData, reviewsData, userBooks, profileUser,
                   searchTerm, selectedGenre, sortBy>>
    /\ filterAndSortBooks

\* Profile: the session's user is set and fetchProfileData answers with the books
\* that user added (.eq("added_by", user.id)) and all reviews rows.
FetchProfileData(u) ==
    /\ profileUser # u
    /\ profileUser' = u
    /\ userBooks' = BooksWithRatings(SelectSeq(booksData, LAMBDA b : b.added_by = u),
                                     reviewsData)
    /\ UNCHANGED <<controllerVars, editVars, booksData, reviewsData, books, catalogLoading,
                   viewVars>>

AggregationInit ==
    /\ ControllerInit
    /\ PagesInit
    /\ booksData \in BookLists
    /\ reviewsData \in ReviewLists

AggregationNext ==
    \/ FetchBooks
    \/ \E u \in Users : FetchProfileData(u)

AggregationSpec == AggregationInit /\ [][AggregationNext]_vars

\* ------------------------------------------------- the catalog page (Index)
\* The books rows of the catalog store. Rows 2k-1 and 2k carry the same created_at
\* (rows written by one statement).
CatalogIds ==
    <<"c01", "c02", "c03", "c04", "c05", "c06", "c07", "c08", "c09", "c10", "c11",
      "c12", "c13">>
Titles == << <<"A", "b">>, <<"a", "b">>, <<"B", "a">>, <<"c", "a", "B">> >>
Authors == << <<"C", "a">>, <<"a">> >>
Genres == <<"Fantasy", "Science Fiction", "all">>
PublishedYears == <<1965, 2018, 1965, 2001, 1999>>

CatalogBook(i) ==
    [id |-> CatalogIds[i],
     title |-> Titles[((i - 1) % Len(Titles)) + 1],
     author |-> Authors[((i - 1) % Len(Authors)) + 1],
     genre |-> Genres[((i - 1) % Len(Genres)) + 1],
     published_year |-> PublishedYears[((i - 1) % Len(PublishedYears)) + 1],
     created_at |-> (i + 1) \div 2,
     added_by |-> IF i % 2 = 1 THEN "A" ELSE None]

\* from("books").select("*").order("created_at", desc) on a store of n rows: the rows
\* newest first, two rows of one created_at in either order.
PairNewestFirst(g, n, flip) ==
    IF 2 * g > n THEN <<CatalogBook(2 * g - 1)>>
    ELSE IF flip THEN <<CatalogBook(2 * g - 1), CatalogBook(2 * g)>>
    ELSE <<CatalogBook(2 * g), CatalogBook(2 * g - 1)>>

RECURSIVE CatalogNewestFirst(_, _, _)
CatalogNewestFirst(g, n, flips) ==
    IF g = 0 THEN <<>>
    ELSE PairNewestFirst(g, n, flips[g]) \o CatalogNewestFirst(g - 1, n, flips)

CatalogLists(n) ==
    {CatalogNewestFirst((n + 1) \div 2, n, flips) :
        flips \in [1..((n + 1) \div 2) -> BOOLEAN]}

\* from("reviews").select("book_id, rating") on that store: no rows at all, or one of
\* two fillings in which every third book has no review and every second book has two.
CatalogReviewsOf(i, k) ==
    IF i % 3 = 0 THEN <<>>
    ELSE <<[book_id |-> CatalogIds[i], rating |-> ((i * k) % MaxRating) + 1]>>
            \o (IF i % 2 = 0 THEN <<[book_id |-> CatalogIds[i], rating |-> MaxRating]>>
                             ELSE <<>>)

RECURSIVE CatalogReviews(_, _)
CatalogReviews(n, k) ==
    IF n = 0 \/ k = 0 THEN <<>>
    ELSE CatalogReviews(n - 1, k) \o CatalogReviewsOf(n, k)

\* What the viewer types into the search Input.
SearchTerms == {<<>>, <<"A", "B">>, <<"c">>}

\* The catalog page as mounted, with the answers its two queries will bring.
CatalogInit ==
    /\ ControllerInit
    /\ PagesInit
    /\ \E n \in 0..MaxBooks :
        /\ booksData \in CatalogLists(n)
        /\ reviewsData \in {CatalogReviews(n, k) : k \in 0..2}

\* fetchBooks fails: the catch block toasts, finally setIsLoading(false); books is not
\* set, so the effect does not run.
FetchBooksError ==
    /\ catalogLoading
    /\ catalogLoading' = FALSE
    /\ UNCHANGED <<controllerVars, editVars, booksData, reviewsData, books, userBooks, profileUser,
                   viewVars>>

\* <Input onChange={(e) => setSearchTerm(e.target.value)}>, then the effect.
SetSearchTerm(t) ==
    /\ t # searchTerm
    /\ searchTerm' = t
    /\ UNCHANGED <<controllerVars, editVars, booksData, reviewsData, books, userBooks,
                   catalogLoading, profileUser, selectedGenre, sortBy>>
    /\ filterAndSortBooks

\* <Select value={selectedGenre} onValueChange={setSelectedGenre}>, then the effect.
SetSelectedGenre(g) ==
    /\ \E i \in 1..Len(GenreOptions) : GenreOptions[i] = g
    /\ g # selectedGenre
    /\ selectedGenre' = g
    /\ UNCHANGED <<controllerVars, editVars, booksData, reviewsData, books, userBooks,
                   catalogLoading, profileUser, searchTerm, sortBy>>
    /\ filterAndSortBooks

\* (variant: a new sort key re-sorts and keeps the page)
SetSortByKeepsPage(key) ==
    /\ key # sortBy
    /\ sortBy' = key
    /\ UNCHANGED <<controllerVars, editVars, booksData, reviewsData, books, userBooks,
                   catalogLoading, profileUser, searchTerm, selectedGenre, currentPage>>
    /\ filteredBooks' = Sorted(Filtered(books', searchTerm', selectedGenre'), sortBy')

\* <Select value={sortBy} onValueChange={setSortBy}>, then the effect.
SetSortBy(key) ==
    /\ key # sortBy
    /\ sortBy' = key
    /\ UNCHANGED <<controllerVars, editVars, booksData, reviewsData, books, userBooks,
                   catalogLoading, profileUser, searchTerm, selectedGenre>>
    /\ filterAndSortBooks

\* The Previous button: disabled={currentPage === 1}.
PreviousPage ==
    /\ PaginationShown
    /\ currentPage # 1
    /\ currentPage' = currentPage - 1
    /\ UNCHANGED <<controllerVars, editVars, booksData, reviewsData, books, userBooks,
                   catalogLoading, profileUser, filteredBooks, searchTerm, selectedGenre,
                   sortBy>>

\* (variant: the Next button is never disabled)
NextPageNeverDisabled ==
    /\ PaginationShown
    /\ currentPage' = currentPage + 1
    /\ UNCHANGED <<controllerVars, editVars, booksData, reviewsData, books, userBooks,
                   catalogLoading, profileUser, filteredBooks, searchTerm, selectedGenre,
                   sortBy>>

\* The Next button: disabled={currentPage === totalPages}.
NextPage ==
    /\ PaginationShown
    /\ currentPage # totalPages
    /\ currentPage' = currentPage + 1
    /\ UNCHANGED <<controllerVars, editVars, booksData, reviewsData, books, userBooks,
                   catalogLoading, profileUser, filteredBooks, searchTerm, selectedGenre,
                   sortBy>>

\* A page-number button of Array.from({length: totalPages}, (_, i) => i + 1).
GoToPage(page) ==
    /\ PaginationShown
    /\ page \in 1..totalPages
    /\ page # currentPage
    /\ currentPage' = page
    /\ UNCHANGED <<controllerVars, editVars, booksData, reviewsData, books, userBooks,
                   catalogLoading, profileUser, filteredBooks, searchTerm, selectedGenre,
                   sortBy>>

CatalogNext ==
    \/ FetchBooks
    \/ FetchBooksError
    \/ \E t \in SearchTerms : SetSearchTerm(t)
    \/ \E g \in {Genres[i] : i \in 1..Len(Genres)} : SetSelectedGenre(g)
    \/ \E key \in SortOptions : SetSortBy(key)
    \/ PreviousPage
    \/ NextPage
    \/ \E page \in 1..(MaxBooks + 1) : GoToPage(page)

CatalogSpec == CatalogInit /\ [][CatalogNext]_vars

\* =================================================================== claims
\* Steps of the review lifecycle, told by what they leave behind.
SubmitCalls == {"insert", "update"}
SubmitSuccessToasts == {"Review updated successfully", "Review submitted successfully"}
ReviewSuccessToasts == SubmitSuccessToasts \cup {"Review deleted successfully"}

\* The draft does not pass validation: rating outside 1..5, or fewer than 10 or more
\* than 1000 characters between the first and the last non-blank one.
DraftInvalid ==
    \/ ParseInt(rating) < 1
    \/ ParseInt(rating) > 5
    \/ reviewText.core < 10
    \/ reviewText.core > 1000

\* A submit call leaves flight with the error toast.
SubmitFailed(m) ==
    /\ m.op \in SubmitCalls
    /\ mutations' = mutations (-) SetToBag({m})
    /\ toast' = "Failed to submit review"

\* A submit call leaves flight with a success toast.
SubmitSucceeded(m) ==
    /\ m.op \in SubmitCalls
    /\ mutations' = mutations (-) SetToBag({m})
    /\ toast' \in SubmitSuccessToasts

\* A call in flight that the page's own controls offer its caller: a submit by a
\* signed-in viewer, or a delete of a review or book the caller owns.
C1_Offered(m) ==
    /\ m.caller # None
    /\ m.op \in {"update", "deleteReview"} =>
        \E r \in Displayed \cup storeReviews : r.id = m.rid /\ r.user_id = m.caller
    /\ m.op = "deleteBook" => m.caller = book.added_by

\* C1: at most one mutating store call (review submit, review delete, book delete) of
\* the viewer's session is in flight at any time; stated of the calls the page's
\* controls offer, so that the calls counted are ones the rendered page sends.
C1_SingleMutationInFlight ==
    BagCardinality([m \in {c \in BagToSet(mutations) : C1_Offered(c)} |-> mutations[m]]) <= 1

\* C2: a submit by a signed-in viewer whose draft fails validation ends with the
\* validation error, sends nothing to the store, leaves the draft rating, the draft
\* text and the edit binding as they were, and leaves the controller not submitting.
C2_InvalidSubmitRejected ==
    [][(HandleSubmitReview /\ user # None /\ DraftInvalid) =>
        /\ toast' = "Validation Error"
        /\ mutations' = mutations
        /\ sent' = sent
        /\ UNCHANGED storeVars
        /\ UNCHANGED draftVars
        /\ isSubmitting' = FALSE
        /\ route' = route]_vars

C2_Witness ==
    /\ toast = "Validation Error"
    /\ user # None
    /\ reviewText = Text(5, 5)
    /\ ~isSubmitting
    /\ mutations = EmptyBag

\* C3: no delete of a review reaches the store on behalf of a signed-in identity other
\* than the review's author: the controller refuses it before any call is sent.
C3_ForeignDeleteRefused ==
    \A m \in BagToSet(mutations) :
        (m.op = "deleteReview" /\ m.caller # None) =>
            \A r \in storeReviews : r.id = m.rid => r.user_id = m.caller

\* C4: a valid submit by a signed-in viewer sends exactly one call: an update addressed
\* to the bound review carrying rating and text only, or, with no binding, an insert
\* for the page's book authored by the current identity; when the store applies it, an
\* update changes the rating and text of that row alone and an insert adds one row.
C4_ExpectedCall ==
    IF editingReview # None
        THEN [op |-> "update", rid |-> editingReview, book_id |-> None, user_id |-> None,
              rating |-> ParseInt(rating), review_text |-> Text(0, reviewText.core),
              caller |-> user]
        ELSE [op |-> "insert", rid |-> None, book_id |-> id, user_id |-> user,
              rating |-> ParseInt(rating), review_text |-> Text(0, reviewText.core),
              caller |-> user]

C4_UpdateTouchesRatingAndText(m) ==
    /\ Cardinality(storeReviews') = Cardinality(storeReviews)
    /\ \A r \in storeReviews :
        \E q \in storeReviews' :
            /\ q.id = r.id /\ q.book_id = r.book_id /\ q.user_id = r.user_id
            /\ q.created_at = r.created_at
            /\ r.id # m.rid => q = r

C4_InsertAddsOneRow(m) ==
    \E q \in storeReviews' \ storeReviews :
        /\ storeReviews' = storeReviews \cup {q}
        /\ q.book_id = id /\ q.user_id = m.caller
        /\ q.rating = m.rating /\ q.review_text = m.review_text

C4_SubmitSendsOneCall ==
    [][/\ (HandleSubmitReview /\ user # None /\ ~DraftInvalid) =>
            /\ mutations' = mutations (+) SetToBag({C4_ExpectedCall})
            /\ UNCHANGED storeVars
       /\ \A m \in BagToSet(mutations) :
            SubmitSucceeded(m) =>
                /\ storeBook' = storeBook
                /\ IF m.op = "update" THEN C4_UpdateTouchesRatingAndText(m)
                                      ELSE C4_InsertAddsOneRow(m)]_vars

C4_Witness ==
    \E m \in BagToSet(mutations) : m.op = "update" /\ m.rid = "r2" /\ m.caller = "A"

\* C5: a submit while no identity is signed in raises the authentication toast,
\* redirects to the sign-in route, sends nothing to the store and never sets
\* isSubmitting, whatever the draft holds.
C5_AnonymousSubmitRedirects ==
    [][(HandleSubmitReview /\ user = None) =>
        /\ toast' = "Authentication Required"
        /\ route' = "/auth"
        /\ mutations' = mutations
        /\ sent' = sent
        /\ UNCHANGED storeVars
        /\ ~isSubmitting /\ ~isSubmitting']_vars

C5_Witness ==
    /\ toast = "Authentication Required"
    /\ route = "/auth"
    /\ user = None
    /\ reviewText # EmptyText

C7_SuccessClearsEverything ==
    toast \in SubmitSuccessToasts =>
        /\ editingReview = None
        /\ rating = "5"
        /\ reviewText = EmptyText
        /\ ~isSubmitting

\* C8 (as stated): whenever the compose card is shown, cancelCompose can be taken.
C8_CancelAlwaysAvailable == ComposeCardShown => ENABLED CancelCompose

\* C8 (amended): cancelCompose can be taken whenever the compose card is shown in edit
\* mode, also while a submit is in flight; it leaves no edit binding and a blank draft
\* with the default rating, and sends nothing to the store.
C8_CancelInEditMode ==
    /\ [](ComposeCardShown /\ editingReview # None => ENABLED CancelCompose)
    /\ [][CancelCompose =>
            /\ editingReview' = None
            /\ rating' = "5"
            /\ reviewText' = EmptyText
            /\ mutations' = mutations
            /\ fetches' = fetches
            /\ sent' = sent
            /\ UNCHANGED storeVars]_vars

C8_Witness ==
    /\ ComposeCardShown
    /\ editingReview = "r2"
    /\ isSubmitting
    /\ ENABLED CancelCompose

\* C9: the step that reports a successful create, update or delete of a review starts
\* one fetchBookDetails and patches nothing; a fetch starts at no other step; the
\* displayed list changes only by being replaced with the rows a fetch brought back,
\* and those are all the store's reviews of the book at the time they were read.
C9_FetchedRows(f) == {f.data[i] : i \in 1..Len(f.data)}

C9_RefetchAfterSuccess ==
    [][/\ toast' \in ReviewSuccessToasts =>
            /\ fetches' = fetches (+) SetToBag({[stage |-> "book", data |-> <<>>]})
            /\ isLoading'
            /\ reviews' = reviews
       /\ BagCardinality(fetches') > BagCardinality(fetches) =>
            /\ toast' \in ReviewSuccessToasts
            /\ BagCardinality(mutations') = BagCardinality(mutations) - 1
       /\ reviews' # reviews =>
            \E f \in BagToSet(fetches) :
                /\ f.stage = "reply"
                /\ reviews' = f.data
                /\ fetches' = fetches (-) SetToBag({f})
       /\ \A f \in BagToSet(fetches') :
            (f.stage = "reply" /\ CopiesIn(f, fetches') > CopiesIn(f, fetches)) =>
                /\ C9_FetchedRows(f) = {r \in storeReviews : r.book_id = id}
                /\ Len(f.data) = Cardinality(C9_FetchedRows(f))]_vars

C9_Witness ==
    /\ toast = "Review deleted successfully"
    /\ isLoading
    /\ BagIn([stage |-> "book", data |-> <<>>], fetches)

\* C10: the aggregation yields one aggregate per fetched book, in the books' order,
\* whose reviewCount is the number of review rows of that book and whose averageRating
\* is the sum of their ratings over that number, and 0 when there are none; rows of a
\* book that was not fetched count nowhere.
C10_RowsOf(b) == {j \in 1..Len(reviewsData) : reviewsData[j].book_id = b.id}

RECURSIVE C10_Sum(_)
C10_Sum(J) ==
    IF J = {} THEN 0
    ELSE LET j == CHOOSE k \in J : TRUE IN reviewsData[j].rating + C10_Sum(J \ {j})

C10_AggregateOf(agg, b) ==
    /\ agg.id = b.id
    /\ agg.reviewCount = Cardinality(C10_RowsOf(b))
    /\ agg.averageRating.den > 0
    /\ IF C10_RowsOf(b) = {}
          THEN agg.averageRating.num = 0
          ELSE agg.averageRating.num * Cardinality(C10_RowsOf(b))
                   = C10_Sum(C10_RowsOf(b)) * agg.averageRating.den

C10_Aggregated(out, in) ==
    /\ Len(out) = Len(in)
    /\ \A i \in 1..Len(in) : C10_AggregateOf(out[i], in[i])

C10_OneAggregatePerBook ==
    /\ ~catalogLoading => C10_Aggregated(books, booksData)
    /\ profileUser # None =>
        C10_Aggregated(userBooks, SelectSeq(booksData, LAMBDA b : b.added_by = profileUser))

C10_Witness ==
    /\ ~catalogLoading
    /\ \E i \in 1..Len(books) :
        /\ books[i].reviewCount = 2
        /\ books[i].averageRating = [num |-> 9, den |-> 2]
    /\ \E j \in 1..Len(reviewsData) : reviewsData[j].book_id = OrphanBook

\* C11: the filtered result holds exactly the books whose title or author contains the
\* search term whatever the case of the letters (every book when the term is empty) and
\* whose genre is the selected one (every genre when "all" is selected): each such book
\* of the collection is in the result, and the result holds nothing else.
C11_ContainsIgnoringCase(s, t) ==
    \E k \in 0..(Len(s) - Len(t)) :
        \A i \in 1..Len(t) : LetterRank(s[k + i]) = LetterRank(t[i])

C11_Matches(b) ==
    /\ \/ searchTerm = <<>>
       \/ C11_ContainsIgnoringCase(b.title, searchTerm)
       \/ C11_ContainsIgnoringCase(b.author, searchTerm)
    /\ selectedGenre = "all" \/ b.genre = selectedGenre

C11_FilterExact ==
    /\ \A i \in 1..Len(books) :
        C11_Matches(books[i]) <=> \E j \in 1..Len(filteredBooks) : filteredBooks[j] = books[i]
    /\ \A j \in 1..Len(filteredBooks) :
        /\ \E i \in 1..Len(books) : books[i] = filteredBooks[j]
        /\ C11_Matches(filteredBooks[j])

C11_Witness ==
    /\ searchTerm = <<"A", "B">>
    /\ selectedGenre = "Fantasy"
    /\ Len(filteredBooks) > 1
    /\ Len(filteredBooks) < Len(books)
    /\ \E j \in 1..Len(filteredBooks) : filteredBooks[j].title = <<"c", "a", "B">>

\* C12: the sorted result is a permutation of the filtered collection (every matching
\* book once, nothing else) and each item stands before its successor in the order of
\* the sort key: averageRating, published_year or created_at not increasing, or title
\* not decreasing.
C12_InOrder(a, b) ==
    CASE sortBy = "rating" -> a.averageRating.num * b.averageRating.den
                                 >= b.averageRating.num * a.averageRating.den
      [] sortBy = "year" -> a.published_year >= b.published_year
      [] sortBy = "title" -> localeCompare(a.title, b.title) <= 0
      [] sortBy = "recent" -> a.created_at >= b.created_at

C12_SortedPermutation ==
    /\ \A j \in 1..(Len(filteredBooks) - 1) :
        C12_InOrder(filteredBooks[j], filteredBooks[j + 1])
    /\ Len(filteredBooks) = Cardinality({i \in 1..Len(books) : C11_Matches(books[i])})
    /\ \A j, k \in 1..Len(filteredBooks) : filteredBooks[j] = filteredBooks[k] => j = k
    /\ \A j \in 1..Len(filteredBooks) :
        \E i \in 1..Len(books) : books[i] = filteredBooks[j] /\ C11_Matches(books[i])

C12_Witness ==
    /\ sortBy = "year"
    /\ Len(filteredBooks) >= 4
    /\ filteredBooks # books
    /\ \E j \in 1..(Len(filteredBooks) - 1) :
        filteredBooks[j].published_year > filteredBooks[j + 1].published_year
    /\ \E j \in 1..(Len(filteredBooks) - 1) :
        filteredBooks[j].published_year = filteredBooks[j + 1].published_year

\* C13: books of equal sort key stand in the result in ascending order of id, so that
\* the result does not depend on the order in which the store returned them.
C13_IdRank(x) == CHOOSE i \in 1..Len(CatalogIds) : CatalogIds[i] = x

C13_SameKey(a, b) ==
    CASE sortBy = "rating" -> a.averageRating = b.averageRating
      [] sortBy = "year" -> a.published_year = b.published_year
      [] sortBy = "title" -> localeCompare(a.title, b.title) = 0
      [] sortBy = "recent" -> a.created_at = b.created_at

C13_TiesByIdAscending ==
    \A j \in 1..(Len(filteredBooks) - 1) :
        C13_SameKey(filteredBooks[j], filteredBooks[j + 1]) =>
            C13_IdRank(filteredBooks[j].id) < C13_IdRank(filteredBooks[j + 1].id)

\* C14: with count filtered books, totalPages is the least number of pages of 5 that
\* hold them; page p of 1..totalPages holds the min(5, count - (p-1)*5) items at
\* positions (p-1)*5+1 onwards of the sorted collection, in order; a page beyond
\* totalPages is empty; the page shown is the slice of currentPage.
C14_Min(a, b) == IF a < b THEN a ELSE b

C14_Pagination ==
    LET count == Len(filteredBooks) IN
    /\ totalPages * 5 >= count
    /\ (totalPages - 1) * 5 < count
    /\ \A p \in 1..totalPages :
        /\ Len(PageSlice(filteredBooks, p)) = C14_Min(5, count - (p - 1) * 5)
        /\ \A k \in 1..Len(PageSlice(filteredBooks, p)) :
            PageSlice(filteredBooks, p)[k] = filteredBooks[(p - 1) * 5 + k]
    /\ \A p \in (totalPages + 1)..(totalPages + 2) : PageSlice(filteredBooks, p) = <<>>
    /\ paginatedBooks = PageSlice(filteredBooks, currentPage)

C14_Witness ==
    /\ Len(filteredBooks) = 7
    /\ totalPages = 2
    /\ Len(PageSlice(filteredBooks, 1)) = 5
    /\ currentPage = 2
    /\ Len(paginatedBooks) = 2

\* C15: a step that changes the search term, the selected genre or the sort key ends
\* on page 1, whatever the page was; a step that changes the page alone leaves the
\* books and the filtered and sorted collection as they were.
C15_FilterChangeResetsPage ==
    [][/\ (searchTerm' # searchTerm \/ selectedGenre' # selectedGenre \/ sortBy' # sortBy)
            => currentPage' = 1
       /\ (currentPage' # currentPage
             /\ searchTerm' = searchTerm /\ selectedGenre' = selectedGenre
             /\ sortBy' = sortBy)
            => filteredBooks' = filteredBooks /\ books' = books]_vars

C15_Witness ==
    /\ currentPage = 1
    /\ sortBy = "title"
    /\ searchTerm = <<"A", "B">>
    /\ totalPages > 1
    /\ ENABLED NextPage

\* C16: the current page is always between 1 and max(1, totalPages); Previous cannot
\* be taken on page 1 and Next cannot be taken on the last page.
C16_PageInRange ==
    /\ 1 <= currentPage
    /\ currentPage <= (IF totalPages > 1 THEN totalPages ELSE 1)
    /\ currentPage = 1 => ~ENABLED PreviousPage
    /\ currentPage = totalPages => ~ENABLED NextPage

C16_Witness ==
    /\ totalPages = 3
    /\ currentPage = 3
    /\ ENABLED PreviousPage
    /\ ~ENABLED NextPage
    /\ searchTerm = <<>>

\* C17: in every state, whatever the search term, the selected genre, the sort key and
\* the page are, the genre options are "all" followed by the genres of the unfiltered
\* books, each once, in the order in which they first occur.
C17_FirstIndex(g) ==
    CHOOSE i \in 1..Len(books) :
        books[i].genre = g /\ \A j \in 1..(i - 1) : books[j].genre # g

C17_GenreOptions ==
    /\ GenreOptions[1] = "all"
    /\ {GenreOptions[i] : i \in 2..Len(GenreOptions)}
          = {books[j].genre : j \in 1..Len(books)}
    /\ \A i, k \in 2..Len(GenreOptions) :
          i < k => /\ GenreOptions[i] # GenreOptions[k]
                   /\ C17_FirstIndex(GenreOptions[i]) < C17_FirstIndex(GenreOptions[k])

C17_Witness ==
    /\ Len(GenreOptions) = 4
    /\ Len(books) > 3
    /\ selectedGenre = "Science Fiction"
    /\ searchTerm = <<"c">>
    /\ Len(filteredBooks) < 3

\* C18: a book without reviews is shown as "No ratings" wherever its aggregate is
\* shown; here, on the book-details page of a book the store holds no review of.
C18_NoRatingsNeverZero ==
    (PageShown /\ reviews = <<>> /\ ~\E r \in storeReviews : r.book_id = id) =>
        averageRating = <<"No ratings">>

\* C19: no submit call carrying a review text of 1000 characters or more reaches the
\* store: such a text is rejected by the validation.
C19_ThousandRejected ==
    \A m \in BagToSet(mutations) :
        m.op \in SubmitCalls => Length(m.review_text) < 1000

\* C20: the store never holds two reviews of one author for one book.
C20_OneReviewPerAuthorAndBook ==
    \A r, q \in storeReviews :
        (r.user_id = q.user_id /\ r.book_id = q.book_id) => r = q

\* C22: once no store call and no fetchBookDetails run of the page is in flight, the
\* displayed reviews are the store's reviews of the book, in whatever order the answers
\* of overlapping fetchBookDetails runs arrived.
C22_DisplayedMatchesStore ==
    (Mounted /\ mutations = EmptyBag /\ fetches = EmptyBag) =>
        Displayed = {r \in storeReviews : r.book_id = id}

\* C24: while the page is in edit mode and no fetchBookDetails run is in flight, the
\* edit binding is the id of a displayed review: deleting the review being edited
\* clears the binding.
C24_BindingIsDisplayed ==
    (Mounted /\ editingReview # None /\ fetches = EmptyBag) =>
        \E r \in Displayed : r.id = editingReview

\* C25: every update a submit sends is addressed to a review written by the identity
\* that sent it: an edit binding does not pass from one identity's session to another's.
C25_UpdateByAuthor ==
    \A m \in BagToSet(mutations) :
        m.op = "update" =>
            \A r \in storeReviews \cup Displayed : r.id = m.rid => r.user_id = m.caller

\* C26: when a submit succeeds or fails after the viewer has changed the draft or the
\* edit binding since sending it, the step that delivers the answer leaves the draft
\* rating, the draft text and the edit binding as the viewer set them.
C26_ChangedSince(m) ==
    \/ Trim(reviewText) # m.review_text
    \/ ParseInt(rating) # m.rating
    \/ editingReview # m.rid

C26_LaterDraftSurvives ==
    [][\A m \in BagToSet(mutations) :
        ((SubmitSucceeded(m) \/ SubmitFailed(m)) /\ C26_ChangedSince(m)) =>
            UNCHANGED draftVars]_vars

\* C27: with an empty search term, choosing the option of a genre that occurs among
\* the books leaves exactly the books of that genre, also for the genre named "all".
C27_GenreOptionFilters ==
    [][\A g \in {books[i].genre : i \in 1..Len(books)} :
        (SetSelectedGenre(g) /\ searchTerm = <<>>) =>
            /\ \A j \in 1..Len(filteredBooks') : filteredBooks'[j].genre = g
            /\ \A i \in 1..Len(books) :
                books[i].genre = g => \E j \in 1..Len(filteredBooks') :
                                          filteredBooks'[j] = books[i]]_vars

\* C23: provided the store answers every submit call in the end, whenever the page is
\* submitting it is later not submitting (or has been left for another route): the
\* submit control is not left disabled for ever by a submit, whether the call succeeds
\* or fails; a validation failure never leaves the page submitting at all.
C23_SubmittingEnds ==
    /\ isSubmitting ~> (~isSubmitting \/ ~Mounted)
    /\ [](toast = "Validation Error" => ~isSubmitting)

C23_Witness ==
    /\ toast = "Failed to submit review"
    /\ Mounted
    /\ ~isSubmitting
    /\ editingReview = None
    /\ ENABLED HandleSubmitReview

\* A request addressed to a row by someone who is not its creator.
Foreign(uid, creator) == uid = None \/ uid # creator

\* C21: whatever requests whatever identities send to the store, an update or delete
\* of a review or of the book by an identity other than the row's creator, or by an
\* anonymous caller, leaves the row unchanged; an insert of a review or of a book
\* stores a row only when the row's creator field is the non-null identity of the caller.
C21_ForeignRequestsRefused ==
    [][/\ \A uid \in Identities, r \in storeReviews :
            (/\ Foreign(uid, r.user_id)
             /\ UpdateReviewRequest(uid, r.id) \/ DeleteReviewRequest(uid, r.id))
                => r \in storeReviews'
       /\ \A uid \in Identities :
            (/\ storeBook.id = id
             /\ Foreign(uid, storeBook.added_by)
             /\ UpdateBookRequest(uid) \/ DeleteBookRequest(uid))
                => storeBook' = storeBook
       /\ \A uid \in Identities, author \in Users :
            (InsertReviewRequest(uid, author) /\ storeReviews' # storeReviews)
                => /\ uid # None
                   /\ \A q \in storeReviews' \ storeReviews : q.user_id = uid
       /\ \A uid \in Identities, owner \in Users :
            (InsertBookRequest(uid, owner) /\ addedBooks' # addedBooks)
                => /\ uid # None
                   /\ \A q \in addedBooks' \ addedBooks : q.added_by = uid]_vars

\* MaxCalls requests have been served; one stored B's review, and the seeded rows are
\* as they were: the other requests were refused.
C21_Witness ==
    /\ sent = MaxCalls
    /\ storeBook = [id |-> id, added_by |-> "A", title |-> "Dune"]
    /\ SeedReviews \subseteq storeReviews
    /\ \E q \in storeReviews \ SeedReviews : q.user_id = "B"
    /\ addedBooks = {}

\* The books row of the pages is in the store and has no owner.
OwnerlessStored == storeBook.id = id /\ storeBook.added_by = None

\* C28: a book without an owner is never updated or deleted: the book page offers no
\* edit or delete control for a displayed book whose added_by is empty, the edit page
\* never shows its form to a signed-in user nor sends an update for such a book, and no
\* step of any client changes the stored row.
C28_OwnerlessBookUntouched ==
    /\ []((book # NullBook /\ book.added_by = None) => ~BookControls)
    /\ [](OwnerlessStored => (~(FormShown /\ editUser # None) /\ bookCalls = {}))
    /\ [][OwnerlessStored => storeBook' = storeBook]_vars

\* The book page has shown the ownerless book, its delete call has been answered
\* without error, the edit page has turned its visitor away, and the row is there.
C28_Witness ==
    /\ OwnerlessStored
    /\ book = storeBook
    /\ route = "/"
    /\ editRoute = "/"
    /\ sent = MaxCalls

====
